---- MODULE Spec2Model ----
(***************************************************************************)
(* Model of gemini-translate.py: a resumable batch translator.  One run of *)
(* main() reads a source table, derives the set of already translated      *)
(* source texts from the output file, and then, row by row over a range,   *)
(* calls the remote translation service and appends one line per           *)
(* translated row to the output file.  The output file outlives the runs;  *)
(* everything else is local to one run of the process.                     *)
(***************************************************************************)
EXTENDS Integers, Sequences, FiniteSets, TLC

\* ---------------------------------------------------------------- bounds
MaxRows == 2        \* longest source table
MaxRuns == 2        \* invocations of the process in one behaviour
MaxLen == 3         \* longest string given to clean_text on its own

\* ---------------------------------------------------------------- values
\* A missing/empty `context` cell: pandas reads it as NaN, csv.writer writes
\* it as "nan", and pandas reads "nan" back as NaN.
NaN == "nan"

\* the `context` cells of the source table, as they stand in the file
Texts == {"a", "b", ""}

\* pd.read_csv (line 80): the value of a cell in the data frame
ReadCell(c) == IF c \in {"", "nan"} THEN NaN ELSE c

\* args.end: <<>> when --end is not given (line 59, default=None), else <<n>>
NoEnd == <<>>

\* the lines of the output file
Header == [kind |-> "header"]       \* context,id,context_my

Row(c, i, t) == [kind |-> "row", context |-> c, id |-> i, context_my |-> t]

\* ---------------------------------------------------------------- clean_text
Whitespace == {" ", "\n", "\r", "\t"}

RECURSIVE LStrip(_)
LStrip(s) == IF s = <<>> THEN s
             ELSE IF Head(s) \in Whitespace THEN LStrip(Tail(s)) ELSE s

RECURSIVE RStrip(_)
RStrip(s) == IF s = <<>> THEN s
             ELSE IF s[Len(s)] \in Whitespace THEN RStrip(SubSeq(s, 1, Len(s) - 1)) ELSE s

\* str.strip()
Strip(s) == RStrip(LStrip(s))

\* str.replace(old, new) for one-character old and new
Replace(s, old, new) == [i \in 1..Len(s) |-> IF s[i] = old THEN new ELSE s[i]]

\* the first word of a string that starts with a non-whitespace character
RECURSIVE FirstWord(_)
FirstWord(s) == IF s = <<>> \/ Head(s) \in Whitespace THEN <<>>
                ELSE <<Head(s)>> \o FirstWord(Tail(s))

\* str.split() with no separator: the maximal runs of non-whitespace
RECURSIVE Split(_)
Split(s) == LET t == LStrip(s)
                w == FirstWord(t)
            IN  IF t = <<>> THEN <<>>
                ELSE <<w>> \o Split(SubSeq(t, Len(w) + 1, Len(t)))

\* ' '.join(words)
RECURSIVE Join(_)
Join(ws) == IF ws = <<>> THEN <<>>
            ELSE IF Len(ws) = 1 THEN ws[1]
            ELSE ws[1] \o <<" ">> \o Join(Tail(ws))

\* (variant: each pair of adjacent whitespace characters is replaced by one
\* space in a single pass, as text.replace('  ', ' ') would)
RECURSIVE CollapseOnce(_)
CollapseOnce(s) ==
    IF Len(s) < 2 THEN s
    ELSE IF s[1] \in Whitespace /\ s[2] \in Whitespace
         THEN <<" ">> \o CollapseOnce(SubSeq(s, 3, Len(s)))
         ELSE <<s[1]>> \o CollapseOnce(Tail(s))

clean_textOnce(str) ==
    IF str = <<>> THEN str
    ELSE CollapseOnce(Replace(Replace(str, "\r", " "), "\n", " "))

clean_text(str) ==
    IF str = <<>> THEN str
    ELSE Join(Split(Replace(Replace(str, "\r", " "), "\n", " ")))

\* what the remote service may answer (response.text)
Responses == { <<"x", "\n", "y">>, <<" ", "x", " ", "\n", "y", "\r">> }

\* ---------------------------------------------------------------- state
VARIABLES
    source,             \* df: the `context` column of the source table
    sinkExists,         \* os.path.exists(output_filepath)
    sink,               \* the lines of the output file
    pc,                 \* position of the process in main()
    exitStatus,         \* exit status of the last run that ended
    reason,             \* how the last run ended
    api_key,            \* TRUE iff a credential was given
    inputState,         \* "ok", "missing" or "unreadable"
    outWritable,        \* FALSE iff open(output_filepath) for writing fails in this run
    start, end,         \* args.start, args.end
    translated_ids,     \* the completed-keys set
    index,              \* loop variable of the row loop
    processed_count,
    skipped_count,
    translated_context, \* result of translate() awaiting its append
    \* history of the current run
    runs,               \* processes started so far
    calls,              \* remote calls issued in this run: [index, outcome]
    fetched,            \* source positions fetched in this run, in order
    appendFails,        \* appends that failed in this run
    headerWrites,       \* header lines written by the program
    atStart,            \* the output file when this run started
    prev,               \* summary of the previous run when it had the same range
    summary,            \* TRUE iff this run has printed its final summary
    \* clean_text applied on its own
    text,               \* the string given to clean_text
    cleaned             \* the results of applying clean_text to it, again and again

runVars == <<api_key, inputState, outWritable, start, end, translated_ids, index,
             processed_count, skipped_count, translated_context>>
histVars == <<runs, calls, fetched, appendFails, headerWrites, atStart, prev>>
normVars == <<text, cleaned>>
vars == <<source, sinkExists, sink, pc, exitStatus, reason, runVars, histVars, summary, normVars>>

\* ---------------------------------------------------------------- helpers
total_rows == Len(source)

\* row['ids'] of the row at source position p
IdOf(p) == p

\* range(start, min(end, total_rows)) stops before this index (lines 108, 115)
Stop == LET e == IF end = NoEnd THEN total_rows ELSE end[1]
        IN  IF e < total_rows THEN e ELSE total_rows

\* df.iloc[i]: a negative i counts from the end of the table
Pos(i) == IF i < 0 THEN total_rows + i ELSE i

\* df.iloc[i]['context'] (lines 116-117)
TextAt(i) == ReadCell(source[Pos(i) + 1])

\* (variant: the completed keys are not read back from the output file)
ReadKeysNothing(file) == {}

\* pd.read_csv(output_filepath) followed by set(translated_df['context']):
\* the first line names the columns; an empty file or a first line without a
\* `context` column raises, and the except branch yields the empty set
ReadKeys(file) ==
    IF file = <<>> \/ file[1] # Header THEN {}
    ELSE {file[i].context : i \in 2..Len(file)}

\* (variant: the new file is left without its header line)
NewFileNoHeader == <<>>

\* lines 98-100: open(output_filepath, mode='w') and write the header row
NewFile == <<Header>>

\* (variant: the row is written with mode='w', replacing the file)
WrittenOver(file, line) == <<line>>

\* lines 134-140: open(output_filepath, mode='a') and write one row
Written(file, line) == Append(file, line)

\* `context in translated_ids`.  A NaN key is found only when it is the very
\* object stored in the set, which depends on the dtypes pandas inferred for
\* the two columns: both outcomes occur.
Lookup(context, ids) ==
    IF context \notin ids THEN {FALSE}
    ELSE IF context = NaN THEN BOOLEAN
    ELSE {TRUE}

SeqsUpTo(S, n) == UNION {[1..k -> S] : k \in 0..n}

NoPrev == [same |-> FALSE]

\* the output file was absent, or readable with a `context` column
Intact(f) == ~f.exists \/ (f.lines # <<>> /\ f.lines[1] = Header)

\* no process has run yet
NoRun ==
    /\ pc = "idle"
    /\ exitStatus = -1
    /\ reason = "none"
    /\ api_key = FALSE
    /\ inputState = "ok"
    /\ outWritable = TRUE
    /\ start = 0
    /\ end = NoEnd
    /\ translated_ids = {}
    /\ index = 0
    /\ processed_count = 0
    /\ skipped_count = 0
    /\ translated_context = <<>>
    /\ runs = 0
    /\ calls = <<>>
    /\ fetched = <<>>
    /\ appendFails = 0
    /\ headerWrites = 0
    /\ atStart = [exists |-> sinkExists, lines |-> sink]
    /\ prev = NoPrev
    /\ summary = FALSE

\* ---------------------------------------------------------------- Init
Init ==
    /\ source \in SeqsUpTo(Texts, MaxRows)
    /\ \E f \in {"absent", "empty", "intact"} :
          /\ sinkExists = (f # "absent")
          /\ sink = CASE f = "intact"  -> <<Header, Row("a", 9, <<"x", " ", "y">>)>>
                      [] OTHER         -> <<>>
    /\ NoRun
    /\ text = <<>>
    /\ cleaned = <<>>

\* ---------------------------------------------------------------- actions
\* sys.exit(status) / falling off the end of main()
Exit(status, why) ==
    /\ pc' = "exited"
    /\ exitStatus' = status
    /\ reason' = why

\* (variant: the output file is created before the configuration is checked)
ConfigErrorAfterCreate(why) ==
    /\ Exit(1, why)
    /\ sinkExists' = TRUE
    /\ sink' = IF sinkExists THEN sink ELSE NewFile
    /\ UNCHANGED headerWrites

\* lines 70-72, 75-77, 82-84: print the error and sys.exit(1)
ConfigError(why) ==
    /\ Exit(1, why)
    /\ UNCHANGED <<sinkExists, sink, headerWrites>>

\* lines 53-84: a new process checks the credential and loads the source
LoadConfig(key, inp) ==
    /\ pc \in {"idle", "exited"}
    /\ runs < MaxRuns
    /\ runs' = runs + 1
    /\ api_key' = key
    /\ inputState' = inp
    /\ outWritable' = TRUE
    /\ start' = 0
    /\ end' = NoEnd
    /\ translated_ids' = {}
    /\ index' = 0
    /\ processed_count' = 0
    /\ skipped_count' = 0
    /\ translated_context' = <<>>
    /\ calls' = <<>>
    /\ fetched' = <<>>
    /\ appendFails' = 0
    /\ atStart' = [exists |-> sinkExists, lines |-> sink]
    /\ prev' = IF pc = "exited" /\ reason \in {"completed", "generic"}
               THEN [same |-> TRUE, start |-> start, end |-> end,
                     reason |-> reason, index |-> index,
                     processed |-> processed_count, skipped |-> skipped_count,
                     clean |-> (appendFails = 0 /\ Intact(atStart)),
                     failed |-> IF outWritable THEN {}
                                ELSE {calls[j].index : j \in {k \in 1..Len(calls) : calls[k].index < index}}]
               ELSE NoPrev
    /\ IF ~key THEN ConfigError("no_credential")
       ELSE IF inp = "missing" THEN ConfigError("no_source")
       ELSE IF inp = "unreadable" THEN ConfigError("bad_source")
       ELSE /\ pc' = "bootstrap"
            /\ exitStatus' = -1
            /\ reason' = "none"
            /\ UNCHANGED <<sinkExists, sink, headerWrites>>
    /\ summary' = FALSE
    /\ UNCHANGED <<source, normVars>>

\* lines 86-113: derive the completed keys from the output file, or create
\* it with the header; then read the range arguments and zero the counters
Bootstrap(wr, st, en) ==
    /\ pc = "bootstrap"
    /\ outWritable' = wr
    /\ IF sinkExists
       THEN /\ translated_ids' = ReadKeys(sink)
            /\ pc' = "loop"
            /\ UNCHANGED <<sinkExists, sink, headerWrites, exitStatus, reason>>
       ELSE IF wr
       THEN /\ sinkExists' = TRUE
            /\ sink' = NewFile
            /\ headerWrites' = headerWrites + 1
            /\ translated_ids' = {}
            /\ pc' = "loop"
            /\ UNCHANGED <<exitStatus, reason>>
       ELSE /\ Exit(1, "no_sink")
            /\ UNCHANGED <<sinkExists, sink, headerWrites, translated_ids>>
    /\ start' = st
    /\ end' = en
    /\ index' = st
    /\ prev' = IF prev.same /\ prev.start = st /\ prev.end = en THEN prev ELSE NoPrev
    /\ UNCHANGED <<source, api_key, inputState,
                   processed_count, skipped_count, translated_context,
                   runs, calls, fetched, appendFails, atStart, summary, normVars>>

\* lines 115-121: the next index of the range; fetch the row, skip it if done
NextRow ==
    /\ pc = "loop"
    /\ index < Stop
    /\ IF index < 0 - total_rows
       THEN \* df.iloc[index] raises IndexError, which nothing catches
            /\ Exit(1, "index_error")
            /\ UNCHANGED <<index, skipped_count, fetched>>
       ELSE /\ fetched' = Append(fetched, Pos(index))
            /\ \E hit \in Lookup(TextAt(index), translated_ids) :
                 IF hit
                 THEN /\ skipped_count' = skipped_count + 1
                      /\ index' = index + 1
                      /\ UNCHANGED pc
                 ELSE /\ pc' = "call"
                      /\ UNCHANGED <<index, skipped_count>>
            /\ UNCHANGED <<exitStatus, reason>>
    /\ UNCHANGED <<source, sinkExists, sink, api_key, inputState, outWritable, start, end,
                   translated_ids, processed_count, translated_context,
                   runs, calls, appendFails, headerWrites, atStart, prev, summary, normVars>>

\* lines 146-150: the range is exhausted; print the summary and return
Finish ==
    /\ pc = "loop"
    /\ index >= Stop
    /\ summary' = TRUE
    /\ Exit(0, "completed")
    /\ UNCHANGED <<source, sinkExists, sink, runVars, histVars, normVars>>

\* (variant: the translated row is not counted)
TranslatedUncounted(response) ==
    /\ translated_context' = clean_text(Strip(response))
    /\ pc' = "append"
    /\ UNCHANGED <<exitStatus, reason, index, processed_count>>

\* (variant: the row is counted and the loop goes on without its append)
TranslatedUnwritten(response) ==
    /\ translated_context' = clean_text(Strip(response))
    /\ processed_count' = processed_count + 1
    /\ index' = index + 1
    /\ pc' = "loop"
    /\ UNCHANGED <<exitStatus, reason>>

\* lines 28-37, 49, 125-127: the call returned; normalise and count the row
Translated(response) ==
    /\ translated_context' = clean_text(Strip(response))
    /\ processed_count' = processed_count + 1
    /\ pc' = "append"
    /\ UNCHANGED <<exitStatus, reason, index>>

\* (variant: a failed call skips the row and the loop goes on)
TranslateSkipped(outcome) ==
    /\ index' = index + 1
    /\ pc' = "loop"
    /\ UNCHANGED <<exitStatus, reason, translated_context, processed_count>>

\* lines 40-48: RESOURCE_EXHAUSTED/429 or any other exception: sys.exit(1),
\* a SystemExit that the `except Exception` of line 128 does not catch
TranslateFailed(outcome) ==
    /\ Exit(1, outcome)
    /\ UNCHANGED <<index, translated_context, processed_count>>

\* lines 123-131 and translate() (lines 21-49): one remote call for the row
RemoteCall(outcome, response) ==
    /\ pc = "call"
    /\ calls' = Append(calls, [index |-> index, outcome |-> outcome])
    /\ IF outcome = "ok" THEN Translated(response) ELSE TranslateFailed(outcome)
    /\ UNCHANGED <<source, sinkExists, sink, api_key, inputState, outWritable, start, end,
                   translated_ids, skipped_count,
                   runs, fetched, appendFails, headerWrites, atStart, prev, summary, normVars>>

\* (variant: a failed write ends the run)
WriteFailedFatal ==
    /\ appendFails' = appendFails + 1
    /\ Exit(1, "write_error")
    /\ UNCHANGED <<sink, index>>

\* lines 143-144: the failure is printed and the loop goes on
WriteFailed ==
    /\ appendFails' = appendFails + 1
    /\ index' = index + 1
    /\ pc' = "loop"
    /\ UNCHANGED <<sink, exitStatus, reason>>

\* lines 133-144: open the output file in append mode and write the row;
\* a failure is printed and the loop goes on
AppendRow ==
    /\ pc = "append"
    /\ IF outWritable
       THEN /\ sink' = Written(sink, Row(TextAt(index), IdOf(Pos(index)), translated_context))
            /\ index' = index + 1
            /\ pc' = "loop"
            /\ UNCHANGED <<appendFails, exitStatus, reason>>
       ELSE WriteFailed
    /\ UNCHANGED <<source, sinkExists, api_key, inputState, outWritable,
                   start, end, translated_ids, processed_count, skipped_count,
                   translated_context, runs, calls, fetched, headerWrites, atStart, prev,
                   summary, normVars>>

\* the process is killed between two steps
Crash ==
    /\ pc \in {"bootstrap", "loop", "call", "append"}
    /\ Exit(137, "crash")
    /\ UNCHANGED <<source, sinkExists, sink, runVars, histVars, summary, normVars>>

\* the values of --start and --end that the runs are given
StartVals == {-1, 0, 1}
EndVals == {NoEnd, <<1>>}

Next ==
    \/ \E key \in BOOLEAN, inp \in {"ok", "missing", "unreadable"} : LoadConfig(key, inp)
    \/ \E wr \in BOOLEAN, st \in StartVals, en \in EndVals : Bootstrap(wr, st, en)
    \/ NextRow
    \/ Finish
    \/ \E outcome \in {"ok", "quota", "generic"}, response \in Responses :
          RemoteCall(outcome, response)
    \/ AppendRow
    \/ Crash

Spec == Init /\ [][Next]_vars

\* ---------------------------------------------------------------- clean_text alone
\* the characters of the strings given to clean_text
Chars == {"a", " ", "\n", "\r", "\t"}

\* the example of the normalisation: "a\n\nb  c\r"
Example == <<"a", "\n", "\n", "b", " ", " ", "c", "\r">>

NormInit ==
    /\ source = <<>>
    /\ sinkExists = FALSE
    /\ sink = <<>>
    /\ NoRun
    /\ text \in SeqsUpTo(Chars, MaxLen) \cup {Example}
    /\ cleaned = <<>>

\* lines 12-19: clean_text applied to the string, then to its own result
Normalize ==
    /\ Len(cleaned) < 2
    /\ cleaned' = Append(cleaned, clean_text(IF cleaned = <<>> THEN text ELSE cleaned[Len(cleaned)]))
    /\ UNCHANGED <<source, sinkExists, sink, pc, exitStatus, reason, runVars, histVars,
                   summary, text>>

NormNext == Normalize

NormSpec == NormInit /\ [][NormNext]_vars

\* ---------------------------------------------------------------- properties
IsPrefix(s, t) == Len(s) <= Len(t) /\ s = SubSeq(t, 1, Len(s))

IsRow(line) == line.kind = "row"

\* the lines this run has added to the output file
Added == SubSeq(sink, Len(atStart.lines) + 1, Len(sink))

AddedRows == SelectSeq(Added, IsRow)

\* the source texts that have a row in the output file
SinkKeys == {sink[i].context : i \in {j \in 1..Len(sink) : IsRow(sink[j])}}

\* the indices the row loop has gone through before index k
Before(k) == start..(k - 1)

Completed == pc = "exited" /\ reason = "completed"

\* the previous run had the same range and ended with reason r
PrevWas(r) == prev.same /\ prev.reason = r /\ pc \notin {"idle", "bootstrap"}

\* C1: the `context` column of the output file never holds a value twice.
C1_NoDuplicateKeys ==
    \A i, j \in 1..Len(sink) :
        (IsRow(sink[i]) /\ IsRow(sink[j]) /\ sink[i].context = sink[j].context) => i = j

\* C2 as stated: after a run that completed normally, a second run with the
\* same arguments issues no remote call, appends nothing, and its skipped
\* count is the first run's processed count.
C2_Idempotent ==
    PrevWas("completed") =>
        /\ calls = <<>>
        /\ sink = atStart.lines
        /\ Completed => skipped_count = prev.processed

\* C2 amended: if the first run completed normally, with no failed append and
\* an output file that was absent or readable when it started, then the second
\* run with the same arguments calls the service and appends rows only for
\* rows whose text is missing, and when it completes its skipped count plus its
\* processed count is the first run's processed count plus its skipped count.
C2_IdempotentAmended ==
    (PrevWas("completed") /\ prev.clean) =>
        /\ \A i \in 1..Len(calls) : TextAt(calls[i].index) = NaN
        /\ IsPrefix(atStart.lines, sink)
        /\ \A i \in 1..Len(Added) : IsRow(Added[i]) /\ Added[i].context = NaN
        /\ Completed => skipped_count + processed_count = prev.processed + prev.skipped

\* a second run that skipped every row of a range the first run had
\* partly translated and partly skipped
C2_Witness ==
    /\ PrevWas("completed") /\ prev.clean /\ Completed
    /\ prev.processed > 0 /\ prev.skipped > 0
    /\ calls = <<>> /\ sink = atStart.lines
    /\ skipped_count = prev.processed + prev.skipped

\* the latest remote call of this run failed with this kind of error
FailedAt(kind) ==
    /\ calls # <<>>
    /\ calls[Len(calls)].outcome = kind

\* C3: a run whose remote call for row k fails with a generic error ends with
\* exactly the rows of the range before k in the output file and nothing for
\* k or later; the next run with the same range makes its first remote call
\* for row k, completes the range and appends no row before k again.  (Both
\* runs are taken with every append succeeding and an output file that was
\* absent or readable at the start.)
C3_Resume ==
    /\ (pc = "exited" /\ FailedAt("generic") /\ appendFails = 0 /\ Intact(atStart)) =>
          /\ \A i \in Before(index) : TextAt(i) \in SinkKeys
          /\ \A r \in 1..Len(AddedRows) : \E i \in Before(index) : AddedRows[r].id = Pos(i)
    /\ (PrevWas("generic") /\ prev.clean /\ Completed /\ appendFails = 0) =>
          /\ calls # <<>>
          /\ calls[1].index = prev.index
          /\ \A r \in 1..Len(AddedRows) : \A i \in Before(prev.index) : AddedRows[r].id # Pos(i)
          /\ \A i \in start..(Stop - 1) : TextAt(i) \in SinkKeys

\* C4: the rows fetched by a run are exactly the rows at the source positions
\* i with start <= i < min(end, N), each once and in increasing order, and no
\* row at another position is translated or appended.
C4_RangeCorrect ==
    /\ \A i \in 1..Len(fetched) : start <= fetched[i] /\ fetched[i] < Stop
    /\ \A i \in 1..(Len(fetched) - 1) : fetched[i] < fetched[i + 1]
    /\ \A r \in 1..Len(AddedRows) : start <= AddedRows[r].id /\ AddedRows[r].id < Stop
    /\ Completed => {fetched[i] : i \in 1..Len(fetched)} = start..(Stop - 1)

\* rows that this run has translated and neither appended nor failed to append
Pending == processed_count - Len(AddedRows) - appendFails

\* C5: once a remote call has signalled quota exhaustion the run is over with
\* a non-zero status, the loop has not moved past that row, only the rows
\* translated before it have been appended, and what the output file held
\* before is still there.
C5_QuotaStops ==
    FailedAt("quota") =>
        /\ pc = "exited"
        /\ exitStatus # 0
        /\ calls[Len(calls)].index = index
        /\ \A j \in 1..(Len(calls) - 1) : calls[j].outcome = "ok"
        /\ Len(AddedRows) = (IF outWritable THEN Len(calls) - 1 ELSE 0)
        /\ \A r \in 1..Len(AddedRows) :
              /\ AddedRows[r].id = Pos(calls[r].index)
              /\ AddedRows[r].context = TextAt(calls[r].index)
        /\ IsPrefix(atStart.lines, sink)

\* a quota failure after a row was appended to an output file that had rows
C5_Witness ==
    /\ FailedAt("quota")
    /\ Len(AddedRows) >= 1
    /\ Len(atStart.lines) >= 2

\* C6 as stated: at every point at most one translated row of the run is not
\* in the output file, and no earlier line of the file is lost.  (Taken over
\* the runs whose start is not negative, in which no row is fetched twice.)
C6_Durable ==
    start >= 0 =>
        /\ processed_count - Len(AddedRows) <= 1
        /\ IsPrefix(atStart.lines, sink)

\* C6 amended: the append of each translated row is attempted before the next
\* remote call begins, so at every point at most one translated row still
\* awaits its append, and only while the append is due or after a crash; a
\* translated row is missing from the output file only if it is that row or
\* its append failed; no earlier line of the file is ever lost.
C6_DurableAmended ==
    /\ Pending \in {0, 1}
    /\ Pending = 1 => (pc = "append" \/ (pc = "exited" /\ reason = "crash"))
    /\ pc = "call" => Pending = 0
    /\ IsPrefix(atStart.lines, sink)

\* a crash between the remote call and the append, after an earlier append
C6_Witness ==
    /\ pc = "exited" /\ reason = "crash"
    /\ Pending = 1
    /\ Len(AddedRows) >= 1

\* C7: once the output file exists, every step keeps it and keeps its lines
\* as a prefix of the lines it holds afterwards.
C7_AppendOnly ==
    [][sinkExists => (sinkExists' /\ IsPrefix(sink, sink'))]_vars

\* a second run has appended a row to a file that already held rows
C7_Witness ==
    /\ runs = 2
    /\ Len(atStart.lines) >= 2
    /\ Len(AddedRows) >= 1

HasRow == \E i \in 1..Len(sink) : IsRow(sink[i])

HeaderLines == {i \in 1..Len(sink) : sink[i] = Header}

\* C8 as stated: whenever the output file holds a translated row its first
\* line is the header, and the header is there once.
C8_Header ==
    HasRow => (sink[1] = Header /\ Cardinality(HeaderLines) = 1)

\* C8 amended: whenever the output file holds a translated row and was absent
\* or began with the header when the run started, its first line is the header
\* and the header is there once, written at most once by the program (an
\* output file that exists empty or malformed is appended to as it is).
C8_HeaderAmended ==
    /\ headerWrites <= 1
    /\ (HasRow /\ Intact(atStart)) => (sink[1] = Header /\ HeaderLines = {1})

\* a second run has appended a row to the file that the first run created
C8_Witness ==
    /\ runs = 2
    /\ headerWrites = 1
    /\ Intact(atStart)
    /\ Len(AddedRows) >= 1

AnyCallFailed == FailedAt("quota") \/ FailedAt("generic")

\* the run could not write to the output file: it could not create it, or an
\* append failed
SinkUnwritable == (~atStart.exists /\ ~outWritable) \/ appendFails > 0

\* C9 as stated: the exit status is 0 exactly when the run completed by
\* exhausting the range, and non-zero on a missing credential, a missing or
\* unreadable source, an unwritable output file or a failed remote call.
C9_ExitStatus ==
    pc = "exited" =>
        /\ exitStatus = 0 <=> reason = "completed"
        /\ exitStatus = 0 => index >= Stop
        /\ (~api_key \/ inputState # "ok" \/ SinkUnwritable \/ AnyCallFailed) => exitStatus # 0

\* C9 amended: as stated, with "an unwritable output file" replaced by "an
\* output file that does not exist and cannot be created": a run over an
\* existing file that cannot be written fails every append and still exits 0.
C9_ExitStatusAmended ==
    pc = "exited" =>
        /\ exitStatus = 0 <=> reason = "completed"
        /\ exitStatus = 0 => index >= Stop
        /\ (~api_key \/ inputState # "ok" \/ (~atStart.exists /\ ~outWritable) \/ AnyCallFailed)
              => exitStatus # 0
        /\ (api_key /\ inputState = "ok" /\ (atStart.exists \/ outWritable) /\ ~AnyCallFailed
              /\ index >= Stop /\ reason # "crash") => exitStatus = 0

\* a run over an existing, unwritable file has exhausted its range
C9_Witness ==
    /\ pc = "exited"
    /\ exitStatus = 0
    /\ ~outWritable
    /\ appendFails >= 1

\* the run met a configuration error
ConfigFault == ~api_key \/ inputState # "ok" \/ (~atStart.exists /\ ~outWritable)

\* C10: a run that meets a missing credential, a missing or unreadable source
\* or an output file that cannot be created ends with a non-zero status, has
\* fetched no row and issued no remote call, and leaves the output file as it
\* found it.
C10_NoPartialWork ==
    (pc = "exited" /\ ConfigFault) =>
        /\ exitStatus # 0
        /\ calls = <<>>
        /\ fetched = <<>>
        /\ processed_count = 0
        /\ sinkExists = atStart.exists
        /\ sink = atStart.lines

\* a second run stopped at an unreadable source, the file holding rows
C10_Witness ==
    /\ pc = "exited"
    /\ inputState = "unreadable"
    /\ runs = 2
    /\ Len(sink) >= 2

\* a string without CR or LF, without two adjacent whitespace characters and
\* without whitespace at either end
NormalForm(s) ==
    /\ \A i \in 1..Len(s) : s[i] \notin {"\n", "\r"}
    /\ \A i \in 1..(Len(s) - 1) : ~(s[i] \in Whitespace /\ s[i + 1] \in Whitespace)
    /\ s # <<>> => (s[1] \notin Whitespace /\ s[Len(s)] \notin Whitespace)

\* C11: clean_text applied to its own result gives that result again; the
\* result has no CR or LF, no run of whitespace and no whitespace at the ends,
\* and "a\n\nb  c\r" becomes "a b c".
C11_NormalizeIdempotent ==
    /\ Len(cleaned) = 2 => cleaned[2] = cleaned[1]
    /\ Len(cleaned) >= 1 => NormalForm(cleaned[1])
    /\ (text = Example /\ Len(cleaned) >= 1) => cleaned[1] = <<"a", " ", "b", " ", "c">>

\* clean_text has been applied twice to a string that it changes
C11_Witness ==
    /\ Len(cleaned) = 2
    /\ cleaned[1] # text
    /\ cleaned[1] # <<>>

\* the indices for which this run has issued a remote call
CalledIdx == {calls[j].index : j \in 1..Len(calls)}

\* the indices the row loop has gone past whose text is a completed key
DoneBefore == {i \in Before(index) : TextAt(i) \in translated_ids}

\* C12: every row the loop has gone past whose text is in the completed-keys
\* set was counted as skipped, with no remote call and no append for it, and
\* every row gone past or in hand whose text is not in the set got a remote
\* call.
C12_SkipRule ==
    /\ \A i \in Before(index) : (TextAt(i) \in translated_ids) <=> (i \notin CalledIdx)
    /\ skipped_count = Cardinality(DoneBefore)
    /\ pc \in {"call", "append"} => TextAt(index) \notin translated_ids
    /\ \A r \in 1..Len(AddedRows) : \E i \in CalledIdx : AddedRows[r].id = Pos(i)

\* C13: within one run no source row gets more than one remote call, every
\* remote call but the latest succeeded, and a failed call ends the run, so
\* that no call follows it.
C13_NoRetry ==
    /\ \A j, k \in 1..Len(calls) : j < k => Pos(calls[j].index) # Pos(calls[k].index)
    /\ \A j \in 1..(Len(calls) - 1) : calls[j].outcome = "ok"
    /\ AnyCallFailed => pc = "exited" /\ exitStatus # 0

\* the indices of this run whose translated row could not be appended
FailedIdx == IF outWritable THEN {} ELSE {i \in CalledIdx : i < index}

Started ==
    \/ pc \in {"loop", "call", "append"}
    \/ pc = "exited" /\ reason \in {"completed", "quota", "generic", "index_error"}

\* the `context` values of the rows the output file held when the run started
KeysAtStart ==
    {atStart.lines[i].context : i \in {j \in 1..Len(atStart.lines) : IsRow(atStart.lines[j])}}

\* C15: once startup is over, the completed-keys set is exactly the set of
\* `context` values the output file held, if the file existed and began with
\* the header; it is empty, and the run has gone on with the file left as it
\* was, if the file existed empty or without the header; and if the file did
\* not exist, the set is empty and the file begins with the header, the one
\* line written at creation, followed only by the rows of this run.  Startup
\* ends the run only when an absent file cannot be created.
C15_Bootstrap ==
    [](/\ Started =>
             IF atStart.exists
             THEN /\ IsPrefix(atStart.lines, sink)
                  /\ \A k \in 1..Len(Added) : IsRow(Added[k])
                  /\ IF atStart.lines # <<>> /\ atStart.lines[1] = Header
                     THEN translated_ids = KeysAtStart
                     ELSE translated_ids = {}
             ELSE /\ translated_ids = {}
                  /\ sinkExists
                  /\ sink # <<>> /\ sink[1] = Header
                  /\ \A k \in 2..Len(sink) : IsRow(sink[k])
                  /\ (pc = "loop" /\ index = start /\ fetched = <<>>) => sink = <<Header>>
       /\ (pc = "exited" /\ reason = "no_sink") =>
             ~atStart.exists /\ ~sinkExists /\ ~outWritable)

\* a second run has read back the keys of a file that the first run created
\* and appended to
C15_Witness ==
    /\ pc = "loop" /\ index = start
    /\ runs = 2
    /\ headerWrites = 1
    /\ atStart.exists
    /\ translated_ids # {}
    /\ translated_ids = KeysAtStart

\* C16: a run that entered the row loop and has ended, with the range
\* exhausted or on a failed remote call, has printed the final summary.
C16_FinalSummary ==
    (pc = "exited" /\ (Completed \/ AnyCallFailed)) => summary

\* C17: every row a run has appended holds, as its `context`, the text of the
\* source row exactly as it stands in the source table, together with that
\* row's identifier, and its translated text has no CR or LF, no two
\* whitespace characters in a row and no whitespace at either end.
C17_StoredRowShape ==
    \A r \in 1..Len(AddedRows) :
        /\ \E p \in 0..(total_rows - 1) :
              /\ AddedRows[r].id = IdOf(p)
              /\ AddedRows[r].context = source[p + 1]
        /\ NormalForm(AddedRows[r].context_my)

\* the indices of the range of this run that name a row of the source table
RangeIdx == {i \in start..(Stop - 1) : i >= 0 - total_rows}

\* the output file began with the header when this run started
ReadableAtStart == atStart.lines # <<>> /\ atStart.lines[1] = Header

\* every text of the range was in a row of the output file when this run
\* started
AllPresentAtStart == \A i \in RangeIdx : TextAt(i) \in KeysAtStart

\* C18 as stated: a run that completes with every append succeeding leaves
\* every text of its range in the output file, and a run that starts with
\* every text of its range in the output file issues no remote call and
\* appends nothing.
C18_Converges ==
    /\ (Completed /\ appendFails = 0) => \A i \in RangeIdx : TextAt(i) \in SinkKeys
    /\ (Started /\ AllPresentAtStart) => (calls = <<>> /\ AddedRows = <<>>)

\* C18 amended: a run that completes with every append succeeding leaves
\* every text of its range in the output file, under the header if the file
\* was absent or began with the header; a run that starts with every text of
\* its range in an output file that begins with the header issues remote
\* calls and appends rows only for rows whose text is missing, and leaves the
\* file in that condition for the next run; a run that completes on an
\* output file that existed without the header translates every row of its
\* range again.
C18_ConvergesAmended ==
    [](/\ (Completed /\ appendFails = 0) =>
             /\ \A i \in RangeIdx : TextAt(i) \in SinkKeys
             /\ Intact(atStart) => sink[1] = Header
       /\ (Started /\ ReadableAtStart /\ AllPresentAtStart) =>
             /\ \A j \in 1..Len(calls) : TextAt(calls[j].index) = NaN
             /\ \A r \in 1..Len(AddedRows) : AddedRows[r].context = NaN
             /\ IsPrefix(atStart.lines, sink) /\ sink[1] = Header
       /\ (Completed /\ atStart.exists /\ ~ReadableAtStart) =>
             CalledIdx = RangeIdx)

\* the first run created the file and translated a range of two rows with
\* different texts, and the second run over the same range has completed
\* without a call or an append
C18_Witness ==
    /\ Completed /\ runs = 2
    /\ prev.same /\ prev.reason = "completed" /\ prev.processed = 2
    /\ headerWrites = 1
    /\ ReadableAtStart /\ AllPresentAtStart
    /\ Cardinality({TextAt(i) : i \in RangeIdx}) = 2
    /\ calls = <<>> /\ sink = atStart.lines

\* C19: no remote call is issued for a source row whose text is empty or
\* missing, and no row is appended for it.
C19_EmptyNotSent ==
    /\ \A j \in 1..Len(calls) : source[Pos(calls[j].index) + 1] # ""
    /\ \A r \in 1..Len(AddedRows) : AddedRows[r].context # NaN

\* the indices the row loop has gone past without a remote call
SkippedIdx == Before(index) \ CalledIdx

\* the remote calls of this run that succeeded
OkCalls == {j \in 1..Len(calls) : calls[j].outcome = "ok"}

\* C20: at every point of a run processed_count is the number of remote
\* calls that have succeeded and skipped_count is the number of rows the loop
\* has gone past because it found their text among the completed keys; their
\* sum never exceeds the number of rows fetched and, when the run completes,
\* equals the number of indices of the range; a translated row is counted
\* before its append is attempted and stays counted when the append fails.
C20_Counters ==
    [](/\ processed_count = Cardinality(OkCalls)
       /\ skipped_count = Cardinality(SkippedIdx)
       /\ \A i \in SkippedIdx : TextAt(i) \in translated_ids
       /\ processed_count + skipped_count <= Len(fetched)
       /\ Completed =>
             /\ processed_count + skipped_count = Cardinality(RangeIdx)
             /\ Len(fetched) = Cardinality(RangeIdx)
       /\ pc = "append" => processed_count = Len(AddedRows) + appendFails + 1
       /\ pc \in {"loop", "call"} => processed_count = Len(AddedRows) + appendFails
       /\ ~outWritable => (AddedRows = <<>> /\ appendFails = Cardinality({j \in OkCalls : calls[j].index < index})))

\* a run over two rows that skipped one and completed with the other
\* counted although its append had failed
C20_Witness ==
    /\ Completed
    /\ skipped_count = 1
    /\ processed_count = 1
    /\ appendFails = 1
    /\ AddedRows = <<>>

====
